---- MODULE Spec2Model ----
(***************************************************************************)
(* Model of ComicCrafter-AI/BACKEND/generate_panels.py.                    *)
(*                                                                         *)
(* Texts are TLA+ strings (sequences of characters); the regular           *)
(* expressions of the two response parsers are modelled character by       *)
(* character, with the greedy/backtracking behaviour of Python's re.       *)
(***************************************************************************)
EXTENDS Integers, Sequences, FiniteSets, TLC

VARIABLES
    pc,               \* control position of the running entry point
    src,              \* how the input text was built (ghost, never read by code)
    text,             \* argument of extract_panel_info / extract_story_info
    panel_info_list,  \* local of extract_panel_info, lines 54-64
    panels,           \* value returned by extract_panel_info
    story_info,       \* value returned by extract_story_info
    exc,              \* exception raised and not yet caught
    env_key,          \* GOOGLE_API_KEY as the environment holds it
    gemini_api_key,   \* value returned by load_api_keys
    dotenv_key,       \* GOOGLE_API_KEY as the .env file holds it
    configured,       \* genai.configure has been called
    scenario,         \* first line typed by the user
    style_input,      \* second line typed by the user
    art_style,        \* the art style after normalisation
    response,         \* what model.generate_content returns
    service_calls,    \* models named in calls to generate_content, in order
    parser_calls,     \* texts handed to a response parser, in order
    prompts,          \* number of input() prompts shown
    stdout,           \* lines printed, in order
    exit_code         \* exit status of the process, -1 while it runs

vars == <<pc, src, text, panel_info_list, panels, story_info, exc, env_key, dotenv_key, gemini_api_key,
          configured, scenario, style_input, art_style, response,
          service_calls, parser_calls, prompts, stdout, exit_code>>

-----------------------------------------------------------------------------
(* Characters and strings                                                  *)

Ch(s, i) == SubSeq(s, i, i)

UpperChars == "ABCDEFGHIJKLMNOPQRSTUVWXYZ"
LowerChars == "abcdefghijklmnopqrstuvwxyz"
DigitChars == "0123456789"

UpperSet == {Ch(UpperChars, i) : i \in 1..Len(UpperChars)}
LowerSet == {Ch(LowerChars, i) : i \in 1..Len(LowerChars)}
DigitSet == {Ch(DigitChars, i) : i \in 1..Len(DigitChars)}

ToLower == [c \in UpperSet |->
              Ch(LowerChars, CHOOSE i \in 1..Len(UpperChars) : Ch(UpperChars, i) = c)]
ToUpper == [c \in LowerSet |->
              Ch(UpperChars, CHOOSE i \in 1..Len(LowerChars) : Ch(LowerChars, i) = c)]

LowerCh(c) == IF c \in UpperSet THEN ToLower[c] ELSE c
UpperCh(c) == IF c \in LowerSet THEN ToUpper[c] ELSE c

RECURSIVE LowerStr(_)
LowerStr(s) == IF s = "" THEN "" ELSE LowerCh(Ch(s, 1)) \o LowerStr(SubSeq(s, 2, Len(s)))

\* \s of re, and the characters str.strip() removes
IsSpace(c) == c \in {" ", "\n", "\t", "\r"}
\* \d of re
IsDigit(c) == c \in DigitSet
\* \w of re
IsWord(c) == c \in UpperSet \cup LowerSet \cup DigitSet \cup {"_"}

SetMin(S) == CHOOSE x \in S : \A y \in S : x <= y
SetMax(S) == CHOOSE x \in S : \A y \in S : x >= y

\* str.strip()
Strip(s) ==
    LET keep == {i \in 1..Len(s) : ~IsSpace(Ch(s, i))}
    IN  IF keep = {} THEN "" ELSE SubSeq(s, SetMin(keep), SetMax(keep))

\* the literal lit stands in s at position i
LitAt(s, i, lit) ==
    /\ i >= 1
    /\ i + Len(lit) - 1 <= Len(s)
    /\ Ch(s, i) = Ch(lit, 1)
    /\ SubSeq(s, i, i + Len(lit) - 1) = lit

\* the same under re.IGNORECASE (lit is given in lower case)
LitAtNoCase(s, i, lit) ==
    /\ i >= 1
    /\ i + Len(lit) - 1 <= Len(s)
    /\ LowerCh(Ch(s, i)) = Ch(lit, 1)
    /\ LowerStr(SubSeq(s, i, i + Len(lit) - 1)) = lit

\* sub in s
Contains(s, sub) == sub = "" \/ \E i \in 1..Len(s) : LitAt(s, i, sub)

\* the character classes of the patterns: \s, \d, \w, . and [^"]
InClass(c, cls) ==
    CASE cls = "\\s"    -> IsSpace(c)
      [] cls = "\\d"    -> IsDigit(c)
      [] cls = "\\w"    -> IsWord(c)
      [] cls = "."      -> c # "\n"
      [] cls = "[^\"]"  -> c # "\""

\* position after the longest run of characters of class cls starting at i
RunEnd(s, i, cls) ==
    SetMin({j \in i..(Len(s) + 1) : j = Len(s) + 1 \/ ~InClass(Ch(s, j), cls)})

\* the decimal digits of n >= 0, as an f-string prints them
RECURSIVE IntToStr(_)
IntToStr(n) ==
    IF n < 10 THEN Ch(DigitChars, n + 1)
    ELSE IntToStr(n \div 10) \o Ch(DigitChars, (n % 10) + 1)

\* the strings of q one after the other
RECURSIVE Concat(_)
Concat(q) == IF q = <<>> THEN "" ELSE Head(q) \o Concat(Tail(q))

\* sep.join(parts)
RECURSIVE Join(_, _)
Join(sep, parts) ==
    IF parts = <<>> THEN ""
    ELSE IF Len(parts) = 1 THEN parts[1]
    ELSE parts[1] \o sep \o Join(sep, Tail(parts))

-----------------------------------------------------------------------------
(* extract_panel_info                                                      *)

ExpectedPanels == 6
UnknownScene == "Unknown scene."
NoDialogue == "..."
NoExc == [type |-> "none", msg |-> ""]

\* r"# Panel \d+" matched at position i: the position after the match, 0 if none
PanelDelimEnd(s, i) ==
    IF LitAt(s, i, "# Panel ") /\ i + 8 <= Len(s) /\ IsDigit(Ch(s, i + 8))
    THEN RunEnd(s, i + 8, "\\d")
    ELSE 0

\* re.split(r"# Panel \d+", text) from position i: the text up to the
\* leftmost match at or after i, then the split of what follows the match
RECURSIVE SplitPanelsFrom(_, _)
SplitPanelsFrom(s, i) ==
    LET hits == {p \in i..Len(s) : PanelDelimEnd(s, p) > 0}
    IN  IF hits = {} THEN <<SubSeq(s, i, Len(s))>>
        ELSE LET p == SetMin(hits)
             IN  <<SubSeq(s, i, p - 1)>> \o SplitPanelsFrom(s, PanelDelimEnd(s, p))

SplitPanels(s) == SplitPanelsFrom(s, 1)

NoMatch == [found |-> FALSE, group |-> "", end |-> 0]


\* r"Description:\s*(.+)" with re.IGNORECASE, tried at position p.  \s* is
\* greedy and gives characters back one at a time until (.+) finds a
\* character that is not a newline; (.+) then runs to the end of that line.
DescMatchAt(block, p) ==
    IF ~LitAtNoCase(block, p, "description:") THEN NoMatch
    ELSE LET e == p + 12
             w == RunEnd(block, e, "\\s")
             starts == {k \in e..w : k <= Len(block) /\ InClass(Ch(block, k), ".")}
         IN  IF starts = {} THEN NoMatch
             ELSE LET k == SetMax(starts)
                      z == RunEnd(block, k, ".")
                  IN  [found |-> TRUE, group |-> SubSeq(block, k, z - 1), end |-> z]

\* faulty variant: the match at the rightmost position that has one
DescSearchLast(block) ==
    LET hits == {p \in 1..Len(block) : DescMatchAt(block, p).found}
    IN  IF hits = {} THEN NoMatch ELSE DescMatchAt(block, SetMax(hits))

\* re.search: the match at the leftmost position that has one
DescSearch(block) ==
    LET hits == {p \in 1..Len(block) : DescMatchAt(block, p).found}
    IN  IF hits = {} THEN NoMatch ELSE DescMatchAt(block, SetMin(hits))

\* r'Text:\s*"([^"]+)"' with re.IGNORECASE | re.DOTALL, tried at position p
TextMatchAt(block, p) ==
    IF ~LitAtNoCase(block, p, "text:") THEN NoMatch
    ELSE LET e == p + 5
             w == RunEnd(block, e, "\\s")
             opens == {k \in e..w : k <= Len(block) /\ Ch(block, k) = "\""}
         IN  IF opens = {} THEN NoMatch
             ELSE LET k == SetMax(opens)
                      q == RunEnd(block, k + 1, "[^\"]")
                  IN  IF q > k + 1 /\ q <= Len(block)
                      THEN [found |-> TRUE, group |-> SubSeq(block, k + 1, q - 1),
                            end |-> q + 1]
                      ELSE NoMatch

\* re.findall from position i: the group of the leftmost match at or after
\* i, then the groups found after the end of that match
RECURSIVE TextFindAllFrom(_, _)
TextFindAllFrom(block, i) ==
    LET hits == {p \in i..Len(block) : TextMatchAt(block, p).found}
    IN  IF hits = {} THEN <<>>
        ELSE LET m == TextMatchAt(block, SetMin(hits))
             IN  <<m.group>> \o TextFindAllFrom(block, m.end)

\* faulty variant: re.search in place of re.findall, the first occurrence alone
TextFindFirst(block) ==
    LET hits == {p \in 1..Len(block) : TextMatchAt(block, p).found}
    IN  IF hits = {} THEN <<>> ELSE <<TextMatchAt(block, SetMin(hits)).group>>

TextFindAll(block) == TextFindAllFrom(block, 1)

\* body of the loop, lines 59-63: the record of one non-blank block
PanelInfoOf(block) ==
    LET desc_match == DescSearch(block)
        text_match == TextFindAll(block)
    IN  [Description |-> IF desc_match.found THEN Strip(desc_match.group)
                         ELSE UnknownScene,
         Text |-> IF text_match # <<>> THEN Join(" ", text_match) ELSE NoDialogue]

\* faulty variant: the loop keeps every block, blank or not
NonBlankAlways(block) == TRUE

\* the blocks the loop keeps, line 58
NonBlank(block) == Strip(block) # ""

\* faulty variant: each record is put in front of the list
RECURSIVE PanelInfoListNewestFirst(_)
PanelInfoListNewestFirst(panel_blocks) ==
    IF panel_blocks = <<>> THEN <<>>
    ELSE IF Strip(Head(panel_blocks)) # ""
         THEN PanelInfoListNewestFirst(Tail(panel_blocks)) \o <<PanelInfoOf(Head(panel_blocks))>>
         ELSE PanelInfoListNewestFirst(Tail(panel_blocks))

\* the loop, lines 57-64
RECURSIVE PanelInfoList(_)
PanelInfoList(panel_blocks) ==
    IF panel_blocks = <<>> THEN <<>>
    ELSE IF NonBlank(Head(panel_blocks))
         THEN <<PanelInfoOf(Head(panel_blocks))>> \o PanelInfoList(Tail(panel_blocks))
         ELSE PanelInfoList(Tail(panel_blocks))

\* the message of the ValueError of line 67
PanelCountMessage(n) ==
    "Expected " \o IntToStr(ExpectedPanels) \o " panels, but got " \o IntToStr(n)
        \o ". Check Gemini's output."

-----------------------------------------------------------------------------
(* Input texts of extract_panel_info: the response format of the prompt of *)
(* lines 31-38 and its deviations.  A block is a sequence of lines, each   *)
(* of one kind; a text is an optional preamble followed by delimiters,     *)
(* each followed by a block.                                               *)

MaxLines == 3        \* lines of the block under study
MaxBlocks == 7       \* delimiters in a text

Letters == "abcdefghijklmnop"

\* what the j-th line of the i-th block talks about
Content(i, j) == Ch(Letters, i) \o IntToStr(j)

DescKinds == {"Desc", "DescLower", "DescEmpty", "DescBlank"}
TextKinds == {"Text", "TextLower", "TextEmpty", "TextBare", "TextDots", "TextTwoLines"}
OtherKinds == {"Plain", "End"}
LineKinds == DescKinds \cup TextKinds \cup OtherKinds

Line(kind, c) ==
    CASE kind = "Desc"         -> "Description: " \o c \o ", z\n"
      [] kind = "DescLower"    -> "description:" \o c \o "  \n"
      [] kind = "DescEmpty"    -> "Description:\n"
      [] kind = "DescBlank"    -> "Description:  \n"
      [] kind = "Text"         -> "Text: \"" \o c \o "\"\n"
      [] kind = "TextLower"    -> "text:\"" \o c \o "!\"\n"
      [] kind = "TextEmpty"    -> "Text: \"\"\n"
      [] kind = "TextBare"     -> "Text: " \o c \o "\n"
      [] kind = "TextDots"     -> "Text: \"...\"\n"
      [] kind = "TextTwoLines" -> "Text: \"" \o c \o "\n" \o c \o "\"\n"
      [] kind = "Plain"        -> c \o "\n"
      [] kind = "End"          -> "# end\n"

\* the contents between the quotes of a line, if it is a quoted Text: line
Quoted(kind, c) ==
    CASE kind = "Text"         -> <<c>>
      [] kind = "TextLower"    -> <<c \o "!">>
      [] kind = "TextDots"     -> <<"...">>
      [] kind = "TextTwoLines" -> <<c \o "\n" \o c>>
      [] OTHER                 -> <<>>

\* what a line gives as its description, if it is a Description: line with one
Described(kind, c) ==
    CASE kind = "Desc"      -> <<c \o ", z">>
      [] kind = "DescLower" -> <<c>>
      [] OTHER              -> <<>>

RECURSIVE BlockBodyFrom(_, _, _)
BlockBodyFrom(shape, i, j) ==
    IF j > Len(shape) THEN ""
    ELSE Line(shape[j], Content(i, j)) \o BlockBodyFrom(shape, i, j + 1)

\* the i-th block of a text, of the given shape (a sequence of line kinds)
BlockBody(shape, i) == BlockBodyFrom(shape, i, 1)

RECURSIVE QuotedOfFrom(_, _, _)
QuotedOfFrom(shape, i, j) ==
    IF j > Len(shape) THEN <<>>
    ELSE Quoted(shape[j], Content(i, j)) \o QuotedOfFrom(shape, i, j + 1)

QuotedOf(shape, i) == QuotedOfFrom(shape, i, 1)

Preambles == {"", " \n", "Here are the panels:\n"}
Numberings == {"up", "same", "long"}

\* how a text begins and how its delimiters are numbered
Openings == {[pre |-> pre, numbering |-> numbering] :
                pre \in Preambles, numbering \in Numberings}

PanelNumber(numbering, i) ==
    CASE numbering = "up"   -> IntToStr(i)
      [] numbering = "same" -> "1"
      [] numbering = "long" -> IntToStr(107 - i)

RECURSIVE PanelTextFrom(_, _)
PanelTextFrom(s, i) ==
    IF i > Len(s.blocks) THEN ""
    ELSE "# Panel " \o PanelNumber(s.numbering, i) \o s.gap
             \o BlockBody(s.blocks[i], i) \o PanelTextFrom(s, i + 1)

PanelText(s) == s.pre \o PanelTextFrom(s, 1)

RECURSIVE SeqsUpTo(_, _)
SeqsUpTo(S, n) ==
    IF n = 0 THEN {<<>>}
    ELSE LET shorter == SeqsUpTo(S, n - 1)
         IN  shorter \cup {Append(q, x) : q \in {r \in shorter : Len(r) = n - 1}, x \in S}

Shapes == SeqsUpTo(LineKinds, MaxLines)
BaseShapes == {<<"Desc", "Text">>, <<"DescLower">>, <<"Desc", "Text", "TextLower">>}
OddShapes == {<<>>, <<"Plain">>, <<"Text">>, <<"Desc", "End">>,
              <<"DescLower", "TextTwoLines", "TextDots">>}

\* one block of every shape, alone in its text
OneBlockSources ==
    {[kind |-> "one", pre |-> "", numbering |-> "up", gap |-> "\n", blocks |-> <<shape>>] :
        shape \in Shapes}

\* n blocks of one shape, at most one of them replaced by an odd one
ManyBlockSources ==
    UNION {{[kind |-> "many", pre |-> o.pre, numbering |-> o.numbering, gap |-> "\n",
             blocks |-> [i \in 1..n |-> IF i = odd THEN shape ELSE base]] :
               o \in Openings, base \in BaseShapes,
               odd \in 0..n, shape \in OddShapes} : n \in 0..MaxBlocks}

MaxPanelPieces == 3  \* pieces of a free text

PanelDelimPiece == "# Panel 7"
PanelPieces == {PanelDelimPiece, "Description:", "Text:", "\"", " ", "\n", "a"}

\* every text of at most MaxPanelPieces pieces
FreePanelSources ==
    {[kind |-> "free", pieces |-> q] : q \in SeqsUpTo(PanelPieces, MaxPanelPieces)}

PanelSources == OneBlockSources \cup ManyBlockSources \cup FreePanelSources

PanelTextOf(s) == IF s.kind = "free" THEN Concat(s.pieces) ELSE PanelText(s)

-----------------------------------------------------------------------------
(* extract_story_info                                                      *)

StoryKeys == {"title", "introduction", "storyline", "climax", "moral"}

\* faulty variant: r"#(\w+)", no white space allowed after the marker
HeadingMatchAtNoSpace(s, i) ==
    IF ~LitAt(s, i, "#") \/ i + 1 > Len(s) \/ ~IsWord(Ch(s, i + 1)) THEN NoMatch
    ELSE [found |-> TRUE, group |-> SubSeq(s, i + 1, RunEnd(s, i + 1, "\\w") - 1),
          end |-> RunEnd(s, i + 1, "\\w")]

\* r"#\s*(\w+)" tried at position i: \s* is greedy and gives characters back
\* until (\w+) finds a word character; (\w+) takes the whole word
HeadingMatchAt(s, i) ==
    IF ~LitAt(s, i, "#") THEN NoMatch
    ELSE LET w == RunEnd(s, i + 1, "\\s")
             starts == {k \in (i + 1)..w : k <= Len(s) /\ IsWord(Ch(s, k))}
         IN  IF starts = {} THEN NoMatch
             ELSE LET k == SetMax(starts)
                      z == RunEnd(s, k, "\\w")
                  IN  [found |-> TRUE, group |-> SubSeq(s, k, z - 1), end |-> z]

\* re.split(r"#\s*(\w+)", text) from position i: the text up to the leftmost
\* match at or after i, the heading it captured, then the split of the rest
RECURSIVE SplitSectionsFrom(_, _)
SplitSectionsFrom(s, i) ==
    LET hits == {p \in i..Len(s) : HeadingMatchAt(s, p).found}
    IN  IF hits = {} THEN <<SubSeq(s, i, Len(s))>>
        ELSE LET p == SetMin(hits)
                 m == HeadingMatchAt(s, p)
             IN  <<SubSeq(s, i, p - 1), m.group>> \o SplitSectionsFrom(s, m.end)

\* faulty variant: a split that drops an empty last piece
SplitSectionsNoEmptyTail(s) ==
    LET q == SplitSectionsFrom(s, 1)
    IN  IF q[Len(q)] = "" THEN SubSeq(q, 1, Len(q) - 1) ELSE q

SplitSections(s) == SplitSectionsFrom(s, 1)

EmptyStory == [k \in {} |-> ""]

\* story_info[section_name] = section_content
StoryPut(story, name, content) ==
    [k \in DOMAIN story \cup {name} |-> IF k = name THEN content ELSE story[k]]

\* the loop of lines 112-116 from index i (1-based here: i is sections[i-1]
\* of the code); sections[i+1] beyond the end of the list is an IndexError
RECURSIVE StoryLoop(_, _, _)
StoryLoop(sections, i, story) ==
    IF i > Len(sections) THEN [ok |-> TRUE, value |-> story, exc |-> NoExc]
    ELSE IF i + 1 > Len(sections)
         THEN [ok |-> FALSE, value |-> EmptyStory,
               exc |-> [type |-> "IndexError", msg |-> "list index out of range"]]
         ELSE LET section_name == LowerStr(sections[i])
                  section_content == Strip(sections[i + 1])
              IN  StoryLoop(sections, i + 2,
                            IF section_name \in StoryKeys
                            THEN StoryPut(story, section_name, section_content)
                            ELSE story)

\* extract_story_info(text): what it returns, or the exception it raises
ExtractStoryInfo(t) == StoryLoop(SplitSections(t), 2, EmptyStory)

-----------------------------------------------------------------------------
(* Input texts of extract_story_info                                       *)

MaxPieces == 3       \* pieces of a free text

StoryNames == <<"Title", "Introduction", "Storyline", "Climax", "Moral">>

\* the content written under a heading
StoryContent(name) ==
    CASE name = "Title"        -> "The Cat"
      [] name = "Introduction" -> "A cat, Tom."
      [] name = "Storyline"    -> "Tom ran off."
      [] name = "Climax"       -> "Tom fell!"
      [] name = "Moral"        -> "Look first."
      [] OTHER                 -> "The end."

Layouts == {"plain", "loose", "tight"}

\* a heading and its content, as laid out in the text
Section(layout, name) ==
    CASE layout = "plain" -> "# " \o name \o "\n" \o StoryContent(name) \o "\n"
      [] layout = "loose" -> "#  " \o name \o " \n\n  " \o StoryContent(name) \o " \n\n"
      [] layout = "tight" -> "#" \o name \o " " \o StoryContent(name) \o "\n"

Perms(S) ==
    {q \in [1..Cardinality(S) -> S] : \A a \in S : \E i \in DOMAIN q : q[i] = a}

RECURSIVE StoryTextFrom(_, _)
StoryTextFrom(s, i) ==
    IF i > Len(s.order) THEN ""
    ELSE Section(s.layout, s.order[i]) \o StoryTextFrom(s, i + 1)

StoryText(s) == StoryTextFrom(s, 1)

\* q with x inserted after its k-th element
InsertAt(q, k, x) == SubSeq(q, 1, k) \o <<x>> \o SubSeq(q, k + 1, Len(q))

FiveNames == {StoryNames[i] : i \in 1..Len(StoryNames)}

\* the five headings in every order, with and without a "# Footer" section
FiveSectionSources ==
    {[kind |-> "five", layout |-> layout, order |-> order] :
        layout \in Layouts, order \in Perms(FiveNames)}
    \cup
    {[kind |-> "five", layout |-> layout, order |-> InsertAt(order, k, "Footer")] :
        layout \in {"plain"}, order \in Perms(FiveNames), k \in 0..5}

Pieces == {"#", " ", "\n", "Title", "moral", "Footer", "x.", "_9"}

\* every text of at most MaxPieces pieces
FreeSources ==
    {[kind |-> "free", pieces |-> q] : q \in SeqsUpTo(Pieces, MaxPieces)}

StorySources == FiveSectionSources \cup FreeSources

StoryTextOf(s) == IF s.kind = "five" THEN StoryText(s) ELSE Concat(s.pieces)

-----------------------------------------------------------------------------
(* The program: control is a stack of positions, the running one first     *)

MainLabels == {"main.load_api_keys", "main.configure_gemini", "main.input_scenario",
               "main.input_style", "main.valid_styles", "main.generate_panels",
               "main.print", "main.except", "main.end"}

At(label) == pc # <<>> /\ Head(pc) = label

\* raise e: control goes to the handler of line 139 when main is running,
\* and to the caller of the entry point otherwise
Raise(e) ==
    /\ exc' = e
    /\ pc' = IF pc[Len(pc)] \in MainLabels THEN <<"main.except">> ELSE <<"raised">>

\* return: the frame of the callee is dropped; an entry point returns to its caller
Return == pc' = IF Len(pc) > 1 THEN Tail(pc) ELSE <<"returned">>

\* what model.generate_content(prompt) did: it was not called yet, returned
\* None, returned a response object with a text, or raised
NotCalled == [outcome |-> "not called", text |-> ""]
NoResponse == [outcome |-> "none", text |-> ""]
ResponseWith(t) == [outcome |-> "object", text |-> t]
ServiceRaised == [outcome |-> "raised", text |-> ""]
Unset == [set |-> FALSE, value |-> ""]
Value(v) == [set |-> TRUE, value |-> v]

\* lines 54-64: the split and the loop over the blocks
ExtractPanelInfoLoop ==
    /\ At("extract_panel_info")
    /\ panel_info_list' = PanelInfoList(SplitPanels(text))
    /\ pc' = <<"extract_panel_info.check">> \o Tail(pc)
    /\ UNCHANGED <<src, text, panels, story_info, exc, env_key, dotenv_key,
                   gemini_api_key, configured, scenario, style_input, art_style,
                   response, service_calls, parser_calls, prompts, stdout, exit_code>>

\* lines 66-67: the ValueError
ExtractPanelInfoRaises ==
    /\ At("extract_panel_info.check")
    /\ Len(panel_info_list) # ExpectedPanels
    /\ Raise([type |-> "ValueError", msg |-> PanelCountMessage(Len(panel_info_list))])
    /\ UNCHANGED <<src, text, panel_info_list, panels, story_info, env_key, dotenv_key,
                   gemini_api_key, configured, scenario, style_input, art_style,
                   response, service_calls, parser_calls, prompts, stdout, exit_code>>

\* lines 66 and 69: the list is returned
ExtractPanelInfoReturns ==
    /\ At("extract_panel_info.check")
    /\ ~(Len(panel_info_list) # ExpectedPanels)
    /\ panels' = panel_info_list
    /\ Return
    /\ UNCHANGED <<src, text, panel_info_list, story_info, exc, env_key, dotenv_key,
                   gemini_api_key, configured, scenario, style_input, art_style,
                   response, service_calls, parser_calls, prompts, stdout, exit_code>>

\* lines 106-117
ExtractStoryInfoRuns ==
    /\ At("extract_story_info")
    /\ LET r == ExtractStoryInfo(text)
       IN  IF r.ok
           THEN story_info' = r.value /\ Return /\ exc' = exc
           ELSE story_info' = story_info /\ Raise(r.exc)
    /\ UNCHANGED <<src, text, panel_info_list, panels, env_key, dotenv_key, gemini_api_key,
                   configured, scenario, style_input, art_style, response,
                   service_calls, parser_calls, prompts, stdout, exit_code>>

-----------------------------------------------------------------------------
(* generate_panels and generate_story                                      *)

PanelModel == "gemini-1.5-pro"
StoryModel == "gemini-2.5-pro"

ServiceError == [type |-> "Exception", msg |-> "503 service unavailable"]
PanelGenerationError ==
    [type |-> "Exception", msg |-> "Error: Failed to generate panel descriptions."]
StoryGenerationError ==
    [type |-> "Exception", msg |-> "Error: Failed to generate story."]

\* faulty variant: `not response` alone
EmptyResponseNoneOnly(r) == r.outcome = "none"

\* `not response or not response.text`
EmptyResponse(r) == r.outcome = "none" \/ r.text = ""

Padded(t) == "\n" \o t \o " \n"

GoodPanels ==
    [kind |-> "many", pre |-> "", numbering |-> "up", gap |-> "\n",
     blocks |-> [i \in 1..6 |-> <<"Desc", "Text">>]]
FivePanels ==
    [kind |-> "many", pre |-> "", numbering |-> "up", gap |-> "\n",
     blocks |-> [i \in 1..5 |-> <<"Desc", "Text">>]]
IntroducedPanels ==
    [kind |-> "many", pre |-> "Here are the panels:\n", numbering |-> "up", gap |-> "\n",
     blocks |-> [i \in 1..6 |-> <<"DescLower", "TextDots">>]]
GoodStory == [kind |-> "five", layout |-> "plain", order |-> StoryNames]

\* texts the service may answer with
ResponseTexts ==
    {"", " \n", "Sorry, I cannot help with that.",
     PanelText(GoodPanels), Padded(PanelText(GoodPanels)), PanelText(FivePanels),
     PanelText(IntroducedPanels), StoryText(GoodStory), Padded(StoryText(GoodStory))}

Responses == {NoResponse} \cup {ResponseWith(t) : t \in ResponseTexts}

\* the call of line 45 or 101, recorded with what the prompt was filled with
ServiceCall(model) == [model |-> model, scenario |-> scenario, art_style |-> art_style]

\* lines 42-45, the service answering
GeneratePanelsCallsService ==
    /\ At("generate_panels")
    /\ service_calls' = Append(service_calls, ServiceCall(PanelModel))
    /\ response' \in Responses
    /\ pc' = <<"generate_panels.check">> \o Tail(pc)
    /\ UNCHANGED <<src, text, panel_info_list, panels, story_info, exc, env_key,
                   dotenv_key, gemini_api_key, configured, scenario, style_input,
                   art_style, parser_calls, prompts, stdout, exit_code>>

\* lines 42-45, the call raising
GeneratePanelsServiceRaises ==
    /\ At("generate_panels")
    /\ service_calls' = Append(service_calls, ServiceCall(PanelModel))
    /\ response' = ServiceRaised
    /\ Raise(ServiceError)
    /\ UNCHANGED <<src, text, panel_info_list, panels, story_info, env_key,
                   dotenv_key, gemini_api_key, configured, scenario, style_input,
                   art_style, parser_calls, prompts, stdout, exit_code>>

\* lines 47-48
GeneratePanelsFails ==
    /\ At("generate_panels.check")
    /\ EmptyResponse(response)
    /\ Raise(PanelGenerationError)
    /\ UNCHANGED <<src, text, panel_info_list, panels, story_info, env_key,
                   dotenv_key, gemini_api_key, configured, scenario, style_input,
                   art_style, response, service_calls, parser_calls, prompts,
                   stdout, exit_code>>

\* lines 47 and 50: extract_panel_info is called on the stripped text and
\* what it returns is returned
GeneratePanelsParses ==
    /\ At("generate_panels.check")
    /\ ~EmptyResponse(response)
    /\ text' = Strip(response.text)
    /\ parser_calls' = Append(parser_calls, [parser |-> "extract_panel_info",
                                             text |-> Strip(response.text)])
    /\ pc' = <<"extract_panel_info">> \o Tail(pc)
    /\ UNCHANGED <<src, panel_info_list, panels, story_info, exc, env_key,
                   dotenv_key, gemini_api_key, configured, scenario, style_input,
                   art_style, response, service_calls, prompts, stdout, exit_code>>

\* lines 99-101, the service answering
GenerateStoryCallsService ==
    /\ At("generate_story")
    /\ service_calls' = Append(service_calls, ServiceCall(StoryModel))
    /\ response' \in Responses
    /\ pc' = <<"generate_story.check">> \o Tail(pc)
    /\ UNCHANGED <<src, text, panel_info_list, panels, story_info, exc, env_key,
                   dotenv_key, gemini_api_key, configured, scenario, style_input,
                   art_style, parser_calls, prompts, stdout, exit_code>>

\* lines 99-101, the call raising
GenerateStoryServiceRaises ==
    /\ At("generate_story")
    /\ service_calls' = Append(service_calls, ServiceCall(StoryModel))
    /\ response' = ServiceRaised
    /\ Raise(ServiceError)
    /\ UNCHANGED <<src, text, panel_info_list, panels, story_info, env_key,
                   dotenv_key, gemini_api_key, configured, scenario, style_input,
                   art_style, parser_calls, prompts, stdout, exit_code>>

\* lines 102-103
GenerateStoryFails ==
    /\ At("generate_story.check")
    /\ EmptyResponse(response)
    /\ Raise(StoryGenerationError)
    /\ UNCHANGED <<src, text, panel_info_list, panels, story_info, env_key,
                   dotenv_key, gemini_api_key, configured, scenario, style_input,
                   art_style, response, service_calls, parser_calls, prompts,
                   stdout, exit_code>>

\* lines 102 and 104
GenerateStoryParses ==
    /\ At("generate_story.check")
    /\ ~EmptyResponse(response)
    /\ text' = Strip(response.text)
    /\ parser_calls' = Append(parser_calls, [parser |-> "extract_story_info",
                                             text |-> Strip(response.text)])
    /\ pc' = <<"extract_story_info">> \o Tail(pc)
    /\ UNCHANGED <<src, panel_info_list, panels, story_info, exc, env_key,
                   dotenv_key, gemini_api_key, configured, scenario, style_input,
                   art_style, response, service_calls, prompts, stdout, exit_code>>

-----------------------------------------------------------------------------
(* The command line, lines 119-140                                         *)

valid_styles == <<"Manga", "Anime", "American", "Belgian">>
ValidStyleSet == {valid_styles[i] : i \in 1..Len(valid_styles)}

\* faulty variant: the first letter in upper case, the others left as typed
CapitalizeFirstOnly(s) ==
    IF s = "" THEN "" ELSE UpperCh(Ch(s, 1)) \o SubSeq(s, 2, Len(s))

\* str.capitalize()
Capitalize(s) ==
    IF s = "" THEN "" ELSE UpperCh(Ch(s, 1)) \o LowerStr(SubSeq(s, 2, Len(s)))

\* faulty variant: the .env file wins over the environment
GetApiKeyFileFirst(env, dotenv) == IF dotenv.set THEN dotenv ELSE env

\* load_dotenv() followed by os.getenv("GOOGLE_API_KEY"): a variable of the
\* environment wins over the .env file; an unset variable reads as None
GetApiKey(env, dotenv) == IF env.set THEN env ELSE dotenv

ConfigurationError ==
    [type |-> "ValueError", msg |-> "Please set the GOOGLE_API_KEY environment variable."]

ScenarioPrompt == "Enter your short comic scenario: "
StyleMenu == "\nChoose an art style: Manga, Anime, American, Belgian"
StylePrompt == "Enter art style: "
InvalidStyleLine == "Invalid art style! Defaulting to 'Anime'."

Scenarios == {"", "A cat chases a dog."}

StyleWords == {"manga", "anime", "american", "belgian", "pixel", "", "mangas", "man ga"}
Casings == {"lower", "upper", "title", "mixed"}
Paddings == {<<"", "">>, <<" ", "\t ">>}

RECURSIVE UpperStr(_)
UpperStr(s) == IF s = "" THEN "" ELSE UpperCh(Ch(s, 1)) \o UpperStr(SubSeq(s, 2, Len(s)))

\* a word as the user may type it
Typed(word, casing) ==
    CASE casing = "lower" -> word
      [] casing = "upper" -> UpperStr(word)
      [] casing = "title" -> IF word = "" THEN ""
                             ELSE UpperCh(Ch(word, 1)) \o SubSeq(word, 2, Len(word))
      [] casing = "mixed" -> IF Len(word) < 2 THEN word
                             ELSE Ch(word, 1) \o UpperCh(Ch(word, 2))
                                      \o SubSeq(word, 3, Len(word))

StyleInputs ==
    {pad[1] \o Typed(word, casing) \o pad[2] :
        word \in StyleWords, casing \in Casings, pad \in Paddings}

\* lines 8-11, the ValueError
MainLoadApiKeysRaises ==
    /\ At("main.load_api_keys")
    /\ LET api_key == GetApiKey(env_key, dotenv_key)
       IN  ~api_key.set \/ api_key.value = ""
    /\ Raise(ConfigurationError)
    /\ UNCHANGED <<src, text, panel_info_list, panels, story_info, env_key,
                   dotenv_key, gemini_api_key, configured, scenario, style_input,
                   art_style, response, service_calls, parser_calls, prompts,
                   stdout, exit_code>>

\* lines 8-12 and 121
MainLoadApiKeysReturns ==
    /\ At("main.load_api_keys")
    /\ LET api_key == GetApiKey(env_key, dotenv_key)
       IN  /\ ~(~api_key.set \/ api_key.value = "")
           /\ gemini_api_key' = api_key.value
    /\ pc' = <<"main.configure_gemini">>
    /\ UNCHANGED <<src, text, panel_info_list, panels, story_info, exc, env_key,
                   dotenv_key, configured, scenario, style_input, art_style,
                   response, service_calls, parser_calls, prompts, stdout, exit_code>>

\* lines 14-16 and 122
MainConfigureGemini ==
    /\ At("main.configure_gemini")
    /\ configured' = TRUE
    /\ pc' = <<"main.input_scenario">>
    /\ UNCHANGED <<src, text, panel_info_list, panels, story_info, exc, env_key,
                   dotenv_key, gemini_api_key, scenario, style_input, art_style,
                   response, service_calls, parser_calls, prompts, stdout, exit_code>>

\* line 124
MainInputScenario ==
    /\ At("main.input_scenario")
    /\ scenario' \in Scenarios
    /\ prompts' = prompts + 1
    /\ stdout' = Append(stdout, ScenarioPrompt)
    /\ pc' = <<"main.input_style">>
    /\ UNCHANGED <<src, text, panel_info_list, panels, story_info, exc, env_key,
                   dotenv_key, gemini_api_key, configured, style_input, art_style,
                   response, service_calls, parser_calls, exit_code>>

\* lines 125-126
MainInputStyle ==
    /\ At("main.input_style")
    /\ \E typed \in StyleInputs :
          /\ style_input' = typed
          /\ art_style' = Capitalize(Strip(typed))
    /\ prompts' = prompts + 1
    /\ stdout' = stdout \o <<StyleMenu, StylePrompt>>
    /\ pc' = <<"main.valid_styles">>
    /\ UNCHANGED <<src, text, panel_info_list, panels, story_info, exc, env_key,
                   dotenv_key, gemini_api_key, configured, scenario, response,
                   service_calls, parser_calls, exit_code>>

\* lines 128-131
MainValidStyles ==
    /\ At("main.valid_styles")
    /\ IF art_style \notin ValidStyleSet
       THEN /\ stdout' = Append(stdout, InvalidStyleLine)
            /\ art_style' = "Anime"
       ELSE UNCHANGED <<stdout, art_style>>
    /\ pc' = <<"main.generate_panels">>
    /\ UNCHANGED <<src, text, panel_info_list, panels, story_info, exc, env_key,
                   dotenv_key, gemini_api_key, configured, scenario, style_input,
                   response, service_calls, parser_calls, prompts, exit_code>>

\* line 133: the call; main goes on at line 135 when it returns
MainCallsGeneratePanels ==
    /\ At("main.generate_panels")
    /\ pc' = <<"generate_panels", "main.print">>
    /\ UNCHANGED <<src, text, panel_info_list, panels, story_info, exc, env_key,
                   dotenv_key, gemini_api_key, configured, scenario, style_input,
                   art_style, response, service_calls, parser_calls, prompts,
                   stdout, exit_code>>

\* what lines 136-138 print for the i-th panel
PanelLines(i, panel) ==
    <<"\nPanel " \o IntToStr(i) \o ":",
      "Description: " \o panel.Description,
      "Text: " \o panel.Text>>

RECURSIVE PrintedFrom(_, _)
PrintedFrom(list, i) ==
    IF i > Len(list) THEN <<>>
    ELSE PanelLines(i, list[i]) \o PrintedFrom(list, i + 1)

\* lines 135-138, then the end of the script
MainPrintsPanels ==
    /\ At("main.print")
    /\ stdout' = stdout \o PrintedFrom(panels, 1)
    /\ pc' = <<"main.end">>
    /\ exit_code' = 0
    /\ UNCHANGED <<src, text, panel_info_list, panels, story_info, exc, env_key,
                   dotenv_key, gemini_api_key, configured, scenario, style_input,
                   art_style, response, service_calls, parser_calls, prompts>>

\* faulty variant: the handler prints and the script exits with status 1
MainExceptExitsOne ==
    /\ At("main.except")
    /\ stdout' = Append(stdout, "Something went wrong: " \o exc.msg)
    /\ exc' = NoExc
    /\ pc' = <<"main.end">>
    /\ exit_code' = 1
    /\ UNCHANGED <<src, text, panel_info_list, panels, story_info, env_key,
                   dotenv_key, gemini_api_key, configured, scenario, style_input,
                   art_style, response, service_calls, parser_calls, prompts>>

\* lines 139-140, then the end of the script
MainExcept ==
    /\ At("main.except")
    /\ stdout' = Append(stdout, "Something went wrong: " \o exc.msg)
    /\ exc' = NoExc
    /\ pc' = <<"main.end">>
    /\ exit_code' = 0
    /\ UNCHANGED <<src, text, panel_info_list, panels, story_info, env_key,
                   dotenv_key, gemini_api_key, configured, scenario, style_input,
                   art_style, response, service_calls, parser_calls, prompts>>

-----------------------------------------------------------------------------
(* Specifications                                                          *)

\* nothing has run yet
Fresh ==
    /\ panel_info_list = <<>>
    /\ panels = <<>>
    /\ story_info = EmptyStory
    /\ exc = NoExc
    /\ gemini_api_key = ""
    /\ configured = FALSE
    /\ scenario = ""
    /\ style_input = ""
    /\ art_style = ""
    /\ response = NotCalled
    /\ service_calls = <<>>
    /\ parser_calls = <<>>
    /\ prompts = 0
    /\ stdout = <<>>
    /\ exit_code = -1

\* extract_panel_info called on a text
InitPanel ==
    /\ src \in PanelSources
    /\ text = PanelTextOf(src)
    /\ pc = <<"extract_panel_info">>
    /\ env_key = Unset
    /\ dotenv_key = Unset
    /\ Fresh

NextPanel == ExtractPanelInfoLoop \/ ExtractPanelInfoRaises \/ ExtractPanelInfoReturns

SpecPanel == InitPanel /\ [][NextPanel]_vars

\* extract_story_info called on a text
InitStory ==
    /\ src \in StorySources
    /\ text = StoryTextOf(src)
    /\ pc = <<"extract_story_info">>
    /\ env_key = Unset
    /\ dotenv_key = Unset
    /\ Fresh

NextStory == ExtractStoryInfoRuns

SpecStory == InitStory /\ [][NextStory]_vars

\* the script is run
Init ==
    /\ src = [kind |-> "main"]
    /\ text = ""
    /\ pc = <<"main.load_api_keys">>
    /\ env_key \in {Unset, Value(""), Value("key-1")}
    /\ dotenv_key \in {Unset, Value(""), Value("key-2")}
    /\ Fresh

Next ==
    \/ MainLoadApiKeysRaises
    \/ MainLoadApiKeysReturns
    \/ MainConfigureGemini
    \/ MainInputScenario
    \/ MainInputStyle
    \/ MainValidStyles
    \/ MainCallsGeneratePanels
    \/ GeneratePanelsCallsService
    \/ GeneratePanelsServiceRaises
    \/ GeneratePanelsFails
    \/ GeneratePanelsParses
    \/ ExtractPanelInfoLoop
    \/ ExtractPanelInfoRaises
    \/ ExtractPanelInfoReturns
    \/ MainPrintsPanels
    \/ MainExcept

Spec == Init /\ [][Next]_vars

CallerStyles == {"Manga", "Anime", "watercolour", ""}

\* generate_panels or generate_story called by an importer of the module,
\* the client configured
InitGen ==
    /\ \E fn \in {"generate_panels", "generate_story"} :
          /\ src = [kind |-> "call", fn |-> fn]
          /\ pc = <<fn>>
    /\ text = ""
    /\ env_key = Value("key-1")
    /\ dotenv_key = Unset
    /\ panel_info_list = <<>>
    /\ panels = <<>>
    /\ story_info = EmptyStory
    /\ exc = NoExc
    /\ gemini_api_key = "key-1"
    /\ configured = TRUE
    /\ scenario \in Scenarios
    /\ style_input = ""
    /\ art_style \in CallerStyles
    /\ response = NotCalled
    /\ service_calls = <<>>
    /\ parser_calls = <<>>
    /\ prompts = 0
    /\ stdout = <<>>
    /\ exit_code = -1

NextGen ==
    \/ GeneratePanelsCallsService
    \/ GeneratePanelsServiceRaises
    \/ GeneratePanelsFails
    \/ GeneratePanelsParses
    \/ GenerateStoryCallsService
    \/ GenerateStoryServiceRaises
    \/ GenerateStoryFails
    \/ GenerateStoryParses
    \/ ExtractPanelInfoLoop
    \/ ExtractPanelInfoRaises
    \/ ExtractPanelInfoReturns
    \/ ExtractStoryInfoRuns

SpecGen == InitGen /\ [][NextGen]_vars

-----------------------------------------------------------------------------
(* What the source of a text says about it                                 *)

IsBlank(s) == \A i \in 1..Len(s) : IsSpace(Ch(s, i))

\* the pieces of a free text between its delimiter pieces
RECURSIVE FreeBlocks(_, _)
FreeBlocks(pieces, current) ==
    IF pieces = <<>> THEN <<current>>
    ELSE IF Head(pieces) = PanelDelimPiece
         THEN <<current>> \o FreeBlocks(Tail(pieces), "")
         ELSE FreeBlocks(Tail(pieces), current \o Head(pieces))

\* the stretches of text between the delimiters, in order, with the quoted
\* dialogue each was built with (not recorded for a free text)
SourceBlocks(s) ==
    IF s.kind = "free"
    THEN LET b == FreeBlocks(s.pieces, "")
         IN  [i \in 1..Len(b) |-> [body |-> b[i], quoted |-> <<>>]]
    ELSE <<[body |-> s.pre, quoted |-> <<>>]>>
         \o [i \in 1..Len(s.blocks) |->
                [body |-> s.gap \o BlockBody(s.blocks[i], i),
                 quoted |-> QuotedOf(s.blocks[i], i)]]

NotBlankBlock(b) == ~IsBlank(b.body)

\* the blocks a record is made from
KeptBlocks(s) == SelectSeq(SourceBlocks(s), NotBlankBlock)

CheckingPanels == pc = <<"extract_panel_info.check">>
Returned == pc = <<"returned">>
Raised == pc = <<"raised">>

-----------------------------------------------------------------------------
(* C1 *)

\* C1: extract_panel_info returns a list of exactly six records or raises a
\* ValueError whose message contains 6 and the number of non-blank blocks;
\* it raises exactly when that number is not 6.
C1_SixOrValidationError ==
    LET n == Len(KeptBlocks(src))
    IN  /\ Returned => Len(panels) = 6 /\ n = 6
        /\ Raised => /\ n # 6
                     /\ exc.type = "ValueError"
                     /\ Contains(exc.msg, "6")
                     /\ Contains(exc.msg, IntToStr(n))
                     /\ panels = <<>>

C1_Witness_TooMany ==
    Raised /\ src.kind = "many" /\ Len(KeptBlocks(src)) = 7
        /\ exc.msg = "Expected 6 panels, but got 7. Check Gemini's output."

-----------------------------------------------------------------------------
(* C2 *)

QuotedKinds == {"Text", "TextLower", "TextDots", "TextTwoLines"}

\* a block with a Description: line followed by quoted Text: lines
WellFormedShape(shape) ==
    /\ shape # <<>>
    /\ shape[1] \in {"Desc", "DescLower"}
    /\ \A j \in 2..Len(shape) : shape[j] \in QuotedKinds \cup {"End"}

\* a text of exactly six such blocks
WellFormedSource(s) ==
    /\ s.kind = "many"
    /\ IsBlank(s.pre)
    /\ Len(s.blocks) = 6
    /\ \A i \in 1..6 : WellFormedShape(s.blocks[i])

\* the record the i-th block was written to give
WrittenRecord(s, i) ==
    [Description |-> Described(s.blocks[i][1], Content(i, 1))[1],
     Text |-> IF QuotedOf(s.blocks[i], i) = <<>> THEN "..."
              ELSE Join(" ", QuotedOf(s.blocks[i], i))]

\* C2: a well-formed text of exactly 6 blocks gives exactly 6 records, the
\* i-th record being that of the i-th block, whatever the panel numbers.
C2_SixRecordsInOrder ==
    WellFormedSource(src) =>
        /\ ~Raised
        /\ Returned => /\ Len(panels) = 6
                       /\ \A i \in 1..6 : panels[i] = WrittenRecord(src, i)

C2_Witness ==
    /\ Returned
    /\ WellFormedSource(src)
    /\ src.numbering = "same"
    /\ src.blocks[2] # src.blocks[3]
    /\ panels[1].Description # panels[6].Description

-----------------------------------------------------------------------------
(* C3 *)

\* the records have been built
Built == CheckingPanels \/ Returned \/ Raised

\* C3 as amended: the Text of a record is "..." when its block has no quoted
\* Text: occurrence, and the contents of the occurrences joined by one space,
\* in order, when it has some.
C3_TextJoined ==
    (Built /\ src.kind # "free") =>
        /\ Len(panel_info_list) = Len(KeptBlocks(src))
        /\ \A i \in 1..Len(panel_info_list) :
              LET quoted == KeptBlocks(src)[i].quoted
              IN  panel_info_list[i].Text =
                      IF quoted = <<>> THEN "..." ELSE Join(" ", quoted)

\* C3 as stated: moreover the Text is "..." only when the block has no
\* quoted Text: occurrence.
C3_SentinelExactly ==
    (Built /\ src.kind # "free") =>
        /\ Len(panel_info_list) = Len(KeptBlocks(src))
        /\ \A i \in 1..Len(panel_info_list) :
              LET quoted == KeptBlocks(src)[i].quoted
              IN  /\ panel_info_list[i].Text =
                         IF quoted = <<>> THEN "..." ELSE Join(" ", quoted)
                  /\ panel_info_list[i].Text = "..." <=> quoted = <<>>

C3_Witness_TwoOccurrences ==
    /\ CheckingPanels
    /\ src.kind = "one"
    /\ src.blocks[1] = <<"Text", "TextLower">>
    /\ panel_info_list[1].Text = "a1 a2!"

-----------------------------------------------------------------------------
(* C4 *)

DescLabels(b) == {p \in 1..Len(b) : LitAtNoCase(b, p, "description:")}

\* what follows the first Description: label of b
AfterFirstLabel(b) == SubSeq(b, SetMin(DescLabels(b)) + 12, Len(b))

OnlyNewlines(s) == \A i \in 1..Len(s) : Ch(s, i) = "\n"

\* the first line of s that shows something, trimmed; "" when s is blank
FirstShownLine(s) ==
    LET shown == {i \in 1..Len(s) : ~IsSpace(Ch(s, i))}
    IN  IF shown = {} THEN ""
        ELSE LET a == SetMin(shown)
                 ends == {i \in a..Len(s) : Ch(s, i) = "\n"}
                 z == IF ends = {} THEN Len(s) ELSE SetMin(ends) - 1
                 last == SetMax({i \in a..z : ~IsSpace(Ch(s, i))})
             IN  SubSeq(s, a, last)

\* C4 as amended: a block with no Description: label, or whose first label
\* is followed by line breaks only, gives "Unknown scene."; any other block
\* gives the trimmed text of one line after the first label: the first line
\* there that shows something, or "" when only blanks follow.
C4_DescriptionOneLine ==
    Built =>
        /\ Len(panel_info_list) = Len(KeptBlocks(src))
        /\ \A i \in 1..Len(panel_info_list) :
              LET b == KeptBlocks(src)[i].body
                  d == panel_info_list[i].Description
              IN  IF DescLabels(b) = {} \/ OnlyNewlines(AfterFirstLabel(b))
                  THEN d = "Unknown scene."
                  ELSE /\ d = FirstShownLine(AfterFirstLabel(b))
                       /\ ~Contains(d, "\n")

\* C4 as stated: a block without a Description: label gives "Unknown
\* scene."; a block with one gives trimmed text of a single line found after
\* the first label.
C4_LabelGivesItsText ==
    Built =>
        /\ Len(panel_info_list) = Len(KeptBlocks(src))
        /\ \A i \in 1..Len(panel_info_list) :
              LET b == KeptBlocks(src)[i].body
                  d == panel_info_list[i].Description
              IN  IF DescLabels(b) = {}
                  THEN d = "Unknown scene."
                  ELSE /\ Contains(AfterFirstLabel(b), d)
                       /\ ~Contains(d, "\n")
                       /\ (d = "" \/ (~IsSpace(Ch(d, 1)) /\ ~IsSpace(Ch(d, Len(d)))))

C4_Witness_LabelThenNextLine ==
    /\ CheckingPanels
    /\ src.kind = "one"
    /\ src.blocks[1] = <<"DescEmpty", "DescLower">>
    /\ panel_info_list[1].Description = "description:a2"

-----------------------------------------------------------------------------
(* C5 *)

\* the key under which a heading is stored
KeyOf(name) ==
    CASE name = "Title"        -> "title"
      [] name = "Introduction" -> "introduction"
      [] name = "Storyline"    -> "storyline"
      [] name = "Climax"       -> "climax"
      [] name = "Moral"        -> "moral"

\* C5: a text made of the five headings in any order, each followed by its
\* content, gives all five lower-cased keys, each with the trimmed content of
\* its own heading; a "# Footer" heading and its content appear under no key.
C5_FiveSections ==
    src.kind = "five" =>
        /\ ~Raised
        /\ Returned =>
              /\ DOMAIN story_info = {"title", "introduction", "storyline",
                                      "climax", "moral"}
              /\ \A name \in FiveNames : story_info[KeyOf(name)] = StoryContent(name)
              /\ \A k \in DOMAIN story_info :
                    ~Contains(story_info[k], StoryContent("Footer"))

C5_Witness_FooterInTheMiddle ==
    /\ Returned
    /\ src.kind = "five"
    /\ Len(src.order) = 6
    /\ src.order[1] = "Moral"
    /\ src.order[3] = "Footer"
    /\ src.order[6] = "Title"
    /\ story_info["title"] = "The Cat"

-----------------------------------------------------------------------------
(* C6 *)

\* C6: extract_story_info never fails, whatever the text; it returns a
\* mapping whose keys are among title, introduction, storyline, climax and
\* moral, possibly none of them.
C6_StoryNeverFails ==
    /\ ~Raised
    /\ exc = NoExc
    /\ pc = <<"extract_story_info">> \/ Returned
    /\ DOMAIN story_info \subseteq {"title", "introduction", "storyline",
                                    "climax", "moral"}

\* a heading with nothing after it is stored with empty content
C6_Witness_HeadingWithoutContent ==
    /\ Returned
    /\ src.kind = "free"
    /\ text = "#Title"
    /\ DOMAIN story_info = {"title"}
    /\ story_info["title"] = ""

-----------------------------------------------------------------------------
(* C7 *)

\* GOOGLE_API_KEY is absent or empty once the .env file has been read
MissingCredential ==
    \/ env_key.set /\ env_key.value = ""
    \/ ~env_key.set /\ ~dotenv_key.set
    \/ ~env_key.set /\ dotenv_key.set /\ dotenv_key.value = ""

Done == pc = <<"main.end">>
Handling == pc = <<"main.except">>

\* C7: without a credential the run raises a configuration error before the
\* client is configured, before the user is prompted and before any call of
\* the service; a call of the service always follows a successful load of
\* the credential and the configuration of the client.
C7_CredentialBeforeGeneration ==
    /\ MissingCredential =>
          /\ ~configured /\ prompts = 0 /\ service_calls = <<>> /\ gemini_api_key = ""
          /\ pc \in {<<"main.load_api_keys">>, <<"main.except">>, <<"main.end">>}
          /\ Handling => exc = [type |-> "ValueError",
                                msg |-> "Please set the GOOGLE_API_KEY environment variable."]
          /\ Done => stdout = <<"Something went wrong: Please set the GOOGLE_API_KEY environment variable.">>
    /\ service_calls # <<>> => configured
    /\ prompts > 0 => configured
    /\ configured => gemini_api_key # "" /\ ~MissingCredential

C7_Witness_EmptyInEnvironment ==
    /\ Done
    /\ env_key = Value("")
    /\ dotenv_key = Value("key-2")
    /\ stdout = <<"Something went wrong: Please set the GOOGLE_API_KEY environment variable.">>

-----------------------------------------------------------------------------
(* C8 *)

\* t is s without the white space around it
IsTrimOf(t, s) ==
    /\ t = "" \/ (~IsSpace(Ch(t, 1)) /\ ~IsSpace(Ch(t, Len(t))))
    /\ \E i \in 1..(Len(s) + 1) :
          /\ i + Len(t) - 1 <= Len(s)
          /\ SubSeq(s, i, i + Len(t) - 1) = t
          /\ IsBlank(SubSeq(s, 1, i - 1))
          /\ IsBlank(SubSeq(s, i + Len(t), Len(s)))

Called == src.kind = "call"
CalledPanels == Called /\ src.fn = "generate_panels"
Entered == pc = <<"generate_panels">> \/ pc = <<"generate_story">>
Answered == pc = <<"generate_panels.check">> \/ pc = <<"generate_story.check">>

\* C8: generate_panels and generate_story call the service exactly once; an
\* absent response or an empty text is a generation error, with no second
\* call and no call of the parser; any other response has its trimmed text
\* handed to the parser of the function, exactly once.
C8_OneCallFailFast ==
    Called =>
        /\ Len(service_calls) = IF Entered THEN 0 ELSE 1
        /\ ~Entered => service_calls[1].model =
                           IF CalledPanels THEN "gemini-1.5-pro" ELSE "gemini-2.5-pro"
        /\ (Entered \/ Answered) => parser_calls = <<>>
        /\ (response.outcome = "none" \/ (response.outcome = "object" /\ response.text = ""))
              => /\ parser_calls = <<>>
                 /\ Answered \/ Raised
                 /\ Raised => exc.type = "Exception"
                              /\ exc.msg = IF CalledPanels
                                           THEN "Error: Failed to generate panel descriptions."
                                           ELSE "Error: Failed to generate story."
        /\ (response.outcome = "object" /\ response.text # "" /\ ~Answered)
              => /\ Len(parser_calls) = 1
                 /\ parser_calls[1].parser = IF CalledPanels THEN "extract_panel_info"
                                             ELSE "extract_story_info"
                 /\ IsTrimOf(parser_calls[1].text, response.text)
                 /\ text = parser_calls[1].text
        /\ response.outcome = "raised" => parser_calls = <<>> /\ Raised

C8_Witness_EmptyText ==
    /\ Raised
    /\ src.fn = "generate_story"
    /\ response = ResponseWith("")
    /\ Len(service_calls) = 1
    /\ parser_calls = <<>>
    /\ exc.msg = "Error: Failed to generate story."

-----------------------------------------------------------------------------
(* C9 *)

FailurePrefix == "Something went wrong: "

\* the service answered with six panels
SixPanelResponse ==
    /\ response.outcome = "object"
    /\ response.text \in {PanelText(GoodPanels), Padded(PanelText(GoodPanels))}

\* what six panels look like on the terminal
SixPanelsPrinted ==
    PanelLines(1, WrittenRecord(GoodPanels, 1)) \o PanelLines(2, WrittenRecord(GoodPanels, 2))
        \o PanelLines(3, WrittenRecord(GoodPanels, 3)) \o PanelLines(4, WrittenRecord(GoodPanels, 4))
        \o PanelLines(5, WrittenRecord(GoodPanels, 5)) \o PanelLines(6, WrittenRecord(GoodPanels, 6))

\* the message of the error the run has met
ErrorMet(msg) ==
    IF MissingCredential
    THEN msg = "Please set the GOOGLE_API_KEY environment variable."
    ELSE IF response.outcome = "raised" THEN msg = ServiceError.msg
    ELSE IF response.outcome = "none" \/ response.text = ""
    THEN msg = "Error: Failed to generate panel descriptions."
    ELSE /\ LitAt(msg, 1, "Expected 6 panels, but got ")
         /\ ~SixPanelResponse

\* the lines printed after the prompts
Report ==
    LET shown == IF prompts = 0 THEN 0
                 ELSE IF Contains(Concat(stdout), InvalidStyleLine) THEN 4 ELSE 3
    IN  SubSeq(stdout, shown + 1, Len(stdout))

\* C9: every error goes to the handler at the top, which prints one failure
\* message; the run ends normally, with exit status 0, after the six panels
\* in order or after that one message; the service is never called again.
C9_OneOutcome ==
    /\ ~Raised
    /\ exc # NoExc => Handling
    /\ Len(service_calls) <= 1
    /\ ~Done => exit_code = -1
    /\ Done =>
          /\ exit_code = 0
          /\ exc = NoExc
          /\ \/ /\ SixPanelResponse
                /\ Report = SixPanelsPrinted
             \/ /\ Len(Report) = 1
                /\ LitAt(Report[1], 1, FailurePrefix)
                /\ ErrorMet(SubSeq(Report[1], Len(FailurePrefix) + 1, Len(Report[1])))

C9_Witness_ValidationError ==
    /\ Done
    /\ exit_code = 0
    /\ response = ResponseWith(PanelText(FivePanels))
    /\ Report = <<"Something went wrong: Expected 6 panels, but got 5. Check Gemini's output.">>

-----------------------------------------------------------------------------
(* C10 *)

\* w is v but for the case of its letters
SameButCase(w, v) ==
    /\ Len(w) = Len(v)
    /\ \A i \in 1..Len(v) : UpperCh(Ch(w, i)) = UpperCh(Ch(v, i))

\* typed is v but for case and surrounding white space
Names(typed, v) ==
    \E i \in 1..(Len(typed) + 1) :
        /\ i + Len(v) - 1 <= Len(typed)
        /\ SameButCase(SubSeq(typed, i, i + Len(v) - 1), v)
        /\ IsBlank(SubSeq(typed, 1, i - 1))
        /\ IsBlank(SubSeq(typed, i + Len(v), Len(typed)))

AllowList == {"Manga", "Anime", "American", "Belgian"}

\* the style the user asked for, "Anime" when it is none of the list
Chosen(typed) ==
    IF \E v \in AllowList : Names(typed, v)
    THEN CHOOSE v \in AllowList : Names(typed, v)
    ELSE "Anime"

StyleSettled == pc[Len(pc)] \in {"main.generate_panels", "main.print"}

\* C10: the style handed to generate_panels is one of Manga, Anime, American
\* and Belgian: the one the user typed, but for case and surrounding white
\* space, and Anime for any other input; no input aborts the run.
C10_StyleFromAllowList ==
    /\ StyleSettled => art_style \in AllowList /\ art_style = Chosen(style_input)
    /\ \A i \in 1..Len(service_calls) :
          /\ service_calls[i].art_style \in AllowList
          /\ service_calls[i].art_style = Chosen(style_input)
    /\ (prompts = 2 /\ service_calls = <<>>) => exc = NoExc /\ ~Handling /\ ~Done

C10_Witness_Defaulted ==
    /\ service_calls # <<>>
    /\ style_input = " MANGAS\t "
    /\ service_calls[1].art_style = "Anime"
    /\ Contains(Concat(stdout), "Invalid art style!")

====
